---- MODULE Spec2Model ----
(***************************************************************************)
(* State-machine model of the permutation significance engine of           *)
(* cellphonedb/src/core/methods/cpdb_statistical_analysis_helper.py.       *)
(*                                                                         *)
(* Numbers.  The code computes with IEEE doubles; the model computes with  *)
(* exact values.  A value is a record [k, n, d]:                           *)
(*   k = "nan"                  NaN                                        *)
(*   k = "ninf", "pinf"         -inf, +inf                                 *)
(*   k = "rat"                  the rational n/d (d > 0, lowest terms)     *)
(*   k = "log"                  a logarithm of the rational n/d > 0        *)
(*                              (lowest terms): log2(n/d) in a cluster's   *)
(*                              differential mean, log2(n/d)/2 in a cell   *)
(*                              of a mean table (the half-sum of two       *)
(*                              differential means log2(a) and log2(b) is  *)
(*                              log2(a*b)/2).                              *)
(* Sign, zero test and order of "log" values are those of n/d against 1    *)
(* and of the cross products, so every comparison the code makes is        *)
(* decided exactly.                                                        *)
(***************************************************************************)
EXTENDS Integers, Sequences, FiniteSets, Bags, TLC

\* ------------------------------------------------------------------ bounds

\* Number of permutation trials handed to shuffled_analysis (iterations).
Iterations == 2

\* Number of pool workers (threads).
Threads == 2

\* Largest initial state of the process-wide random generator.
MaxSeed == 11

\* ------------------------------------------------------------- arithmetic

RECURSIVE Gcd(_, _)
Gcd(a, b) == IF b = 0 THEN a ELSE Gcd(b, a % b)

NaN == [k |-> "nan", n |-> 0, d |-> 0]
PInf == [k |-> "pinf", n |-> 0, d |-> 0]
NInf == [k |-> "ninf", n |-> 0, d |-> 0]

\* The rational n/d, d > 0, n >= 0, in lowest terms.
Rat(n, d) == LET g == Gcd(n, d) IN [k |-> "rat", n |-> n \div g, d |-> d \div g]

\* A logarithm of n/d, n > 0, d > 0, in lowest terms.
Log(n, d) == LET g == Gcd(n, d) IN [k |-> "log", n |-> n \div g, d |-> d \div g]

IsNaN(x) == x.k = "nan"

\* x == 0, x > 0, x < 0 on a float: all FALSE on NaN.
IsZero(x) ==
    \/ x.k = "rat" /\ x.n = 0
    \/ x.k = "log" /\ x.n = x.d
IsPositive(x) ==
    \/ x.k = "pinf"
    \/ x.k = "rat" /\ x.n > 0
    \/ x.k = "log" /\ x.n > x.d
IsNegative(x) ==
    \/ x.k = "ninf"
    \/ x.k = "log" /\ x.n < x.d

\* x > y on two floats of the same table (both "log", or both "rat", or
\* infinite): FALSE when either is NaN.
Greater(x, y) ==
    CASE IsNaN(x) \/ IsNaN(y) -> FALSE
      [] x.k = "pinf" -> y.k # "pinf"
      [] x.k = "ninf" -> FALSE
      [] y.k = "pinf" -> FALSE
      [] y.k = "ninf" -> TRUE
      [] OTHER -> x.n * y.d > y.n * x.d
Less(x, y) == Greater(y, x)

\* ----------------------------------------------------------------- tables

Range(s) == {s[i] : i \in 1..Len(s)}

\* A pandas DataFrame of floats: row labels, column labels, and a value for
\* every (row, column).
Table(idx, cols, data) == [index |-> idx, columns |-> cols, data |-> data]

\* No table (a name not bound yet, or a call that returned nothing).
NoTable == Table(<<>>, <<>>, <<>>)

\* df.at[r, c]
At(t, r, c) == t.data[<<r, c>>]

\* df.at[r, c] = v; setting with a label the frame does not have enlarges it
\* (the new row or column is appended, its other cells NaN).
SetAt(t, r, c, v) ==
    LET idx == IF r \in Range(t.index) THEN t.index ELSE Append(t.index, r)
        cols == IF c \in Range(t.columns) THEN t.columns ELSE Append(t.columns, c)
    IN  Table(idx, cols,
              [p \in Range(idx) \X Range(cols) |->
                  IF p = <<r, c>> THEN v
                  ELSE IF p \in DOMAIN t.data THEN t.data[p] ELSE NaN])

\* '{}_{}'.format(a, b)
Format(a, b) == a \o "_" \o b

\* ----------------------------------------------------------------- inputs

\* counts.index: the genes of the expression matrix, in row order.
Genes == <<"g1", "g2">>

\* The interaction catalog: interactions.index is the id, in catalog order.
Catalog ==
    << [id |-> "i1", ensembl_1 |-> "g1", ensembl_2 |-> "g2"],
       [id |-> "i2", ensembl_1 |-> "g2", ensembl_2 |-> "g1"] >>

\* Real metadata: one (cell_type, group) per cell, in cell order.  Every
\* (cluster, group) subset of MetaReal is non-empty; MetaNoNormal has no
\* 'normal' cell at all.
MetaReal ==
    [cell_type |-> <<"B", "B", "A", "A", "B">>,
     group |-> <<"tumor", "normal", "tumor", "normal", "tumor">>]
MetaNoNormal ==
    [cell_type |-> <<"B", "B", "A", "A", "B">>,
     group |-> <<"tumor", "tumor", "tumor", "tumor", "tumor">>]
MetaInputs == {MetaReal, MetaNoNormal}

\* Expression rows (one value per cell) the matrix is drawn from.
CountRows ==
    { <<1, 1, 1, 1, 1>>,
      <<1, 1, 0, 0, 0>>,
      <<2, 1, 0, 1, 1>> }
CountsInputs == [Range(Genes) -> CountRows]

\* The caller's threshold for percent_analysis, a rational.
Thresholds == {Rat(1, 10)}

\* Python's order on the cluster names (str.__lt__).
NameRank(a) == CHOOSE i \in 1..2 : <<"A", "B">>[i] = a

\* ---------------------------------------------------------- build_clusters

\* Series.drop_duplicates().tolist(): the values in order of first appearance.
RECURSIVE DropDuplicates(_)
DropDuplicates(s) ==
    IF s = <<>> THEN <<>>
    ELSE LET head == DropDuplicates(SubSeq(s, 1, Len(s) - 1))
             x == s[Len(s)]
         IN  IF x \in Range(head) THEN head ELSE Append(head, x)

\* meta[(meta['cell_type'] == c) & (meta['group'] == g)].index: the cells of
\* the subset, in cell order.
RECURSIVE SubsetCells(_, _, _, _)
SubsetCells(meta, c, g, upto) ==
    IF upto = 0 THEN <<>>
    ELSE LET rest == SubsetCells(meta, c, g, upto - 1)
         IN  IF meta.cell_type[upto] = c /\ meta.group[upto] = g
             THEN Append(rest, upto) ELSE rest

RECURSIVE SumOver(_, _)
SumOver(row, cells) ==
    IF cells = <<>> THEN 0 ELSE row[Head(cells)] + SumOver(row, Tail(cells))

\* A variant in which the mean over an empty subset is 0.
RowMeanZero(row, cells) ==
    IF cells = <<>> THEN Rat(0, 1) ELSE Rat(SumOver(row, cells), Len(cells))

\* count.mean() of one gene's row over a cell subset; NaN on an empty subset.
RowMean(row, cells) ==
    IF cells = <<>> THEN NaN ELSE Rat(SumOver(row, cells), Len(cells))

\* np.log2(mean_tumor / mean_normal) on two means (NaN or rationals >= 0):
\* 0/0 is NaN, x/0 is +inf, log2(0) is -inf; nothing raises.
Log2Ratio(mt, mn) ==
    CASE IsNaN(mt) \/ IsNaN(mn) -> NaN
      [] mt.n = 0 /\ mn.n = 0 -> NaN
      [] mn.n = 0 -> PInf
      [] mt.n = 0 -> NInf
      [] OTHER -> Log(mt.n * mn.d, mt.d * mn.n)

\* build_clusters(meta, counts).  raised: the KeyError of line 79 when the
\* metadata has no 'tumor' or no 'normal' group.  counts[c, g] is the column
\* subset of the (cluster, group) frame; means[c][gene] the differential mean.
build_clusters(meta, counts) ==
    LET cluster_names == DropDuplicates(meta.cell_type)
        group_names == DropDuplicates(meta.group)
        n == Len(meta.cell_type)
        cells(c, g) == SubsetCells(meta, c, g, n)
        mean(c, g, gene) == RowMean(counts[gene], cells(c, g))
    IN  IF cluster_names # <<>> /\ ~({"tumor", "normal"} \subseteq Range(group_names))
        THEN [raised |-> TRUE, names |-> cluster_names, groups |-> group_names,
              counts |-> <<>>, means |-> <<>>]
        ELSE [raised |-> FALSE, names |-> cluster_names, groups |-> group_names,
              counts |-> [p \in Range(cluster_names) \X Range(group_names) |->
                             cells(p[1], p[2])],
              means |-> [c \in Range(cluster_names) |->
                            [gene \in Range(Genes) |->
                                Log2Ratio(mean(c, "tumor", gene),
                                          mean(c, "normal", gene))]]]

\* ------------------------------------------------ get_cluster_combinations

PairLess(p, q) ==
    \/ NameRank(p[1]) < NameRank(q[1])
    \/ p[1] = q[1] /\ NameRank(p[2]) < NameRank(q[2])

\* itertools.product(names, repeat=2): the first component varies slowest.
Product(names) ==
    [k \in 1..(Len(names) * Len(names)) |->
        <<names[((k - 1) \div Len(names)) + 1], names[((k - 1) % Len(names)) + 1]>>]

RECURSIVE Insert(_, _)
Insert(sorted, p) ==
    IF sorted = <<>> THEN <<p>>
    ELSE IF PairLess(p, Head(sorted)) THEN <<p>> \o sorted
    ELSE <<Head(sorted)>> \o Insert(Tail(sorted), p)

RECURSIVE Sorted(_)
Sorted(s) == IF s = <<>> THEN <<>> ELSE Insert(Sorted(Tail(s)), Head(s))

\* sorted(itertools.product(cluster_names, repeat=2))
get_cluster_combinations(cluster_names) == Sorted(Product(cluster_names))

\* ------------------------------------------------------ build_result_matrix

\* The empty table: index = interactions.index, one column per cluster pair
\* in the order given, every cell NaN (dtype float, nothing filled).
build_result_matrix(interactions, cluster_interactions) ==
    LET idx == [i \in 1..Len(interactions) |-> interactions[i].id]
        columns == [j \in 1..Len(cluster_interactions) |->
                       Format(cluster_interactions[j][1], cluster_interactions[j][2])]
    IN  Table(idx, columns, [p \in Range(idx) \X Range(columns) |-> NaN])

\* --------------------------------------------------------- mean_analysis

\* (mean_receptor + mean_ligand) / 2 on two differential means: NaN when
\* either is NaN or when they are opposite infinities.
HalfSum(a, b) ==
    CASE IsNaN(a) \/ IsNaN(b) -> NaN
      [] a.k = "pinf" -> IF b.k = "ninf" THEN NaN ELSE PInf
      [] a.k = "ninf" -> IF b.k = "pinf" THEN NaN ELSE NInf
      [] b.k = "pinf" -> PInf
      [] b.k = "ninf" -> NInf
      [] OTHER -> Log(a.n * b.n, a.d * b.d)

\* cluster_interaction_mean: side 1's gene under cluster_interaction[0],
\* side 2's gene under cluster_interaction[1]; zero is not special-cased.
cluster_interaction_mean(cluster_interaction, interaction, clusters_means) ==
    HalfSum(clusters_means[cluster_interaction[1]][interaction.ensembl_1],
            clusters_means[cluster_interaction[2]][interaction.ensembl_2])

\* The loops of mean_analysis, percent_analysis and build_percent_result visit
\* the cells row by row: cell k (1-based) is row RowOf, cluster pair PairOf.
RowOf(interactions, cluster_interactions, k) ==
    interactions[((k - 1) \div Len(cluster_interactions)) + 1]
PairOf(cluster_interactions, k) ==
    cluster_interactions[((k - 1) % Len(cluster_interactions)) + 1]
NumCells(interactions, cluster_interactions) ==
    Len(interactions) * Len(cluster_interactions)

\* The dict lookups of cluster_interaction_mean raise KeyError for a cluster
\* the structure does not have.
MeanKeyError(clusters, cluster_interactions) ==
    \E j \in 1..Len(cluster_interactions) :
        \/ cluster_interactions[j][1] \notin DOMAIN clusters.means
        \/ cluster_interactions[j][2] \notin DOMAIN clusters.means

RECURSIVE MeanFill(_, _, _, _, _)
MeanFill(result, interactions, clusters, cluster_interactions, k) ==
    IF k = 0 THEN result
    ELSE LET interaction == RowOf(interactions, cluster_interactions, k)
             pair == PairOf(cluster_interactions, k)
         IN  SetAt(MeanFill(result, interactions, clusters, cluster_interactions, k - 1),
                   interaction.id, Format(pair[1], pair[2]),
                   cluster_interaction_mean(pair, interaction, clusters.means))

\* A variant that fills the template itself instead of a copy of it.
mean_analysis_inplace(interactions, clusters, cluster_interactions, base_result) ==
    LET filled == MeanFill(base_result, interactions, clusters, cluster_interactions,
                           NumCells(interactions, cluster_interactions))
    IN  [raised |-> FALSE, base |-> filled, result |-> filled]

\* mean_analysis: result = base_result.copy(), one write per cell.  base is
\* the template as the call leaves it; raised is the KeyError of a lookup.
mean_analysis(interactions, clusters, cluster_interactions, base_result) ==
    IF Len(interactions) > 0 /\ MeanKeyError(clusters, cluster_interactions)
    THEN [raised |-> TRUE, base |-> base_result, result |-> NoTable]
    ELSE [raised |-> FALSE, base |-> base_result,
          result |-> MeanFill(base_result, interactions, clusters, cluster_interactions,
                              NumCells(interactions, cluster_interactions))]

\* ------------------------------------------------------ percent_analysis

\* What counts_percent is handed: a Series (one gene's values over the cells
\* of a subset) or a DataFrame (genes x cells of a subset).
SeriesOf(row, cells) == [kind |-> "series", values |-> [i \in 1..Len(cells) |-> row[cells[i]]],
                         rows |-> 0]
FrameOf(genes, cells) == [kind |-> "frame", values |-> <<>>, rows |-> Len(genes)]

\* len(counts): the number of values of a Series, the number of rows of a frame.
PandasLen(obj) == IF obj.kind = "series" THEN Len(obj.values) ELSE obj.rows

\* len(counts[counts > 0]): boolean indexing keeps the positive values of a
\* Series, and keeps every row of a frame (masked cells become NaN).
PandasLenPositive(obj) ==
    IF obj.kind = "series"
    THEN Cardinality({i \in 1..Len(obj.values) : obj.values[i] > 0})
    ELSE obj.rows

\* counts_percent: 1 when positive / total < threshold, else 0.
counts_percent(counts, threshold) ==
    LET total == PandasLen(counts)
        positive == PandasLenPositive(counts)
    IN  IF positive * threshold.d < threshold.n * total THEN 1 ELSE 0

\* percents[cluster][gene] of percent_analysis (lines 260-266), with the two
\* per-group flags it is made of: the lambda of each apply ignores its row and
\* hands counts_percent the whole (cluster, group) frame; the two per-group
\* flags are combined with & (both).
ClusterPercents(clusters, threshold) ==
    [c \in Range(clusters.names) |->
        [gene \in Range(Genes) |->
            LET counts_tumor == FrameOf(Genes, clusters.counts[<<c, "tumor">>])
                counts_normal == FrameOf(Genes, clusters.counts[<<c, "normal">>])
                percent_tumor == counts_percent(counts_tumor, threshold)
                percent_normal == counts_percent(counts_normal, threshold)
            IN  [tumor |-> percent_tumor, normal |-> percent_normal,
                 both |-> IF percent_tumor = 1 /\ percent_normal = 1 THEN 1 ELSE 0]]]

\* cluster_interaction_percent: 0 when either side's flag is set, else 1.
cluster_interaction_percent(cluster_interaction, interaction, clusters_percents) ==
    LET percent_receptor ==
            clusters_percents[cluster_interaction[1]][interaction.ensembl_1].both
        percent_ligand ==
            clusters_percents[cluster_interaction[2]][interaction.ensembl_2].both
    IN  IF percent_receptor # 0 \/ percent_ligand # 0 THEN Rat(0, 1) ELSE Rat(1, 1)

RECURSIVE PercentFill(_, _, _, _, _)
PercentFill(result, interactions, percents, cluster_interactions, k) ==
    IF k = 0 THEN result
    ELSE LET interaction == RowOf(interactions, cluster_interactions, k)
             pair == PairOf(cluster_interactions, k)
         IN  SetAt(PercentFill(result, interactions, percents, cluster_interactions, k - 1),
                   interaction.id, Format(pair[1], pair[2]),
                   cluster_interaction_percent(pair, interaction, percents))

\* percent_analysis: result = base_result.copy(), one 0/1 flag per cell.
percent_analysis(clusters, threshold, interactions, cluster_interactions, base_result) ==
    [base |-> base_result, percents |-> ClusterPercents(clusters, threshold),
     result |-> PercentFill(base_result, interactions, ClusterPercents(clusters, threshold),
                            cluster_interactions,
                            NumCells(interactions, cluster_interactions))]

\* ----------------------------------------------------------- shuffle_meta

RECURSIVE Factorial(_)
Factorial(n) == IF n <= 1 THEN 1 ELSE n * Factorial(n - 1)

Swap(x, i, j) == [x EXCEPT ![i] = x[j], ![j] = x[i]]

\* numpy.random.shuffle on the process-wide generator: for i = n-1 .. 1 draw
\* j uniformly in 0..i and swap x[i], x[j] (0-based).  The generator is a
\* deterministic state machine; its state s determines the draws of the next
\* shuffle (the mixed-radix digits of s) and is advanced by the call.
RECURSIVE FisherYates(_, _, _)
FisherYates(x, i, s) ==
    IF i < 1 THEN x
    ELSE FisherYates(Swap(x, i + 1, (s % (i + 1)) + 1), i - 1, s \div (i + 1))

RandomShuffle(x, s) ==
    [x |-> FisherYates(x, Len(x) - 1, s), state |-> (s + 1) % Factorial(Len(x))]

\* A variant that shuffles the caller's metadata itself.
shuffle_meta_inplace(meta, state) ==
    LET r == RandomShuffle(meta.cell_type, state)
        shuffled == [meta EXCEPT !.cell_type = r.x]
    IN  [meta |-> shuffled, meta_copy |-> shuffled, state |-> r.state]

\* shuffle_meta: meta_copy = meta.copy(); the cell_type column of the copy is
\* shuffled in place with the process-wide generator.  meta is the argument
\* as the call leaves it, state the generator after the call.
shuffle_meta(meta, state) ==
    LET r == RandomShuffle(meta.cell_type, state)
    IN  [meta |-> meta, meta_copy |-> [meta EXCEPT !.cell_type = r.x], state |-> r.state]

\* _statistical_analysis: one trial, on the arguments a worker unpickled and
\* with the worker's generator.
statistical_analysis(base_result, cluster_interactions, counts, interactions, meta, state) ==
    LET sh == shuffle_meta(meta, state)
        shuffled_clusters == build_clusters(sh.meta_copy, counts)
        ma == mean_analysis(interactions, shuffled_clusters, cluster_interactions, base_result)
    IN  IF shuffled_clusters.raised
        THEN [raised |-> TRUE, result |-> NoTable, meta |-> sh.meta,
              shuffled |-> sh.meta_copy, base |-> base_result, state |-> sh.state]
        ELSE [raised |-> ma.raised, result |-> ma.result, meta |-> sh.meta,
              shuffled |-> sh.meta_copy, base |-> ma.base, state |-> sh.state]

\* --------------------------------------------------- build_percent_result

One == Rat(1, 1)

\* int(real_percent) == 0 on a float flag (int truncates).
IntIsZero(x) == x.k = "rat" /\ x.n \div x.d = 0

\* mean_per_pair: the cell's value in every shuffled table, NaN dropped.
RECURSIVE MeanPerPair(_, _, _)
MeanPerPair(statistical_mean_analysis, row, col) ==
    IF statistical_mean_analysis = <<>> THEN <<>>
    ELSE LET mean == At(Head(statistical_mean_analysis), row, col)
             rest == MeanPerPair(Tail(statistical_mean_analysis), row, col)
         IN  IF IsNaN(mean) THEN rest ELSE <<mean>> \o rest

\* len(mean_per_pair[mean_per_pair > real_mean]) and ... < real_mean
CountGreater(mean_per_pair, real_mean) ==
    Cardinality({i \in 1..Len(mean_per_pair) : Greater(mean_per_pair[i], real_mean)})
CountLess(mean_per_pair, real_mean) ==
    Cardinality({i \in 1..Len(mean_per_pair) : Less(mean_per_pair[i], real_mean)})

\* A variant of the two-tailed value that counts ties as well.
TwoTailedTies(mean_per_pair, real_mean) ==
    LET n == Cardinality({i \in 1..Len(mean_per_pair) :
                             ~Less(mean_per_pair[i], real_mean)})
        m == Cardinality({i \in 1..Len(mean_per_pair) :
                             ~Greater(mean_per_pair[i], real_mean)})
    IN  IF mean_per_pair = <<>> THEN [raised |-> TRUE, value |-> NaN]
        ELSE [raised |-> FALSE,
              value |-> IF IsPositive(real_mean) THEN Rat(2 * n, Len(mean_per_pair))
                        ELSE Rat(2 * m, Len(mean_per_pair))]

\* A variant in which a division by zero yields NaN, as numpy's does.
TwoTailedSilent(mean_per_pair, real_mean) ==
    IF mean_per_pair = <<>> THEN [raised |-> FALSE, value |-> NaN]
    ELSE [raised |-> FALSE,
          value |-> IF IsPositive(real_mean)
                    THEN Rat(2 * CountGreater(mean_per_pair, real_mean),
                             Len(mean_per_pair))
                    ELSE Rat(2 * CountLess(mean_per_pair, real_mean),
                             Len(mean_per_pair))]

\* Lines 390-397 for a real mean > 0 or < 0: (count / len) * 2, not capped.
\* count and len are Python ints: the division raises ZeroDivisionError when
\* mean_per_pair is empty.
TwoTailed(mean_per_pair, real_mean) ==
    IF mean_per_pair = <<>> THEN [raised |-> TRUE, value |-> NaN]
    ELSE [raised |-> FALSE,
          value |-> IF IsPositive(real_mean)
                    THEN Rat(2 * CountGreater(mean_per_pair, real_mean),
                             Len(mean_per_pair))
                    ELSE Rat(2 * CountLess(mean_per_pair, real_mean),
                             Len(mean_per_pair))]

\* A variant of the veto test that looks at the flag only.
VetoedFlagOnly(real_percent, real_mean) == IntIsZero(real_percent)

\* Line 372: int(real_percent) == 0 or real_mean == 0.
Vetoed(real_percent, real_mean) == IntIsZero(real_percent) \/ IsZero(real_mean)

\* The state of the loop of build_percent_result: the table being filled,
\* the local result_percent (bound once first assigned; it is not reset
\* between cells), and how the loop stands: "ok", or the exception raised
\* and the cell (at) that raised it.
BprStart(base_result) ==
    [table |-> base_result, bound |-> FALSE, result_percent |-> NaN,
     outcome |-> "ok", at |-> 0]

\* One iteration (lines 367-399) on cell k.
BprCell(st, real_mean_analysis, real_perecents_analysis, statistical_mean_analysis, interactions, cluster_interactions, k) ==
    LET interaction == RowOf(interactions, cluster_interactions, k)
        pair == PairOf(cluster_interactions, k)
        col == Format(pair[1], pair[2])
        real_mean == At(real_mean_analysis, interaction.id, col)
        real_percent == At(real_perecents_analysis, interaction.id, col)
        mean_per_pair == MeanPerPair(statistical_mean_analysis, interaction.id, col)
        write(v) == [st EXCEPT !.table = SetAt(st.table, interaction.id, col, v),
                               !.bound = TRUE, !.result_percent = v]
    IN  CASE IsNaN(real_percent) ->
                 [st EXCEPT !.outcome = "ValueError", !.at = k]
          [] ~IsNaN(real_percent) /\ Vetoed(real_percent, real_mean) -> write(One)
          [] ~IsNaN(real_percent) /\ ~Vetoed(real_percent, real_mean)
             /\ (IsPositive(real_mean) \/ IsNegative(real_mean)) ->
                 IF TwoTailed(mean_per_pair, real_mean).raised
                 THEN [st EXCEPT !.outcome = "ZeroDivisionError", !.at = k]
                 ELSE write(TwoTailed(mean_per_pair, real_mean).value)
          [] OTHER ->
                 IF st.bound THEN write(st.result_percent)
                 ELSE [st EXCEPT !.outcome = "UnboundLocalError", !.at = k]

RECURSIVE BprLoop(_, _, _, _, _, _, _)
BprLoop(base_result, real_mean_analysis, real_perecents_analysis, statistical_mean_analysis, interactions, cluster_interactions, k) ==
    IF k = 0 THEN BprStart(base_result)
    ELSE LET st == BprLoop(base_result, real_mean_analysis, real_perecents_analysis, statistical_mean_analysis,
                           interactions, cluster_interactions, k - 1)
         IN  IF st.outcome # "ok" THEN st
             ELSE BprCell(st, real_mean_analysis, real_perecents_analysis, statistical_mean_analysis,
                          interactions, cluster_interactions, k)

\* build_percent_result: percent_result = base_result.copy(), the loop, and
\* the table returned when no iteration raised.  local is the function's
\* percent_result when it ends, base the template as the call leaves it.
build_percent_result(real_mean_analysis, real_perecents_analysis, statistical_mean_analysis, interactions, cluster_interactions, base_result) ==
    LET st == BprLoop(base_result, real_mean_analysis, real_perecents_analysis, statistical_mean_analysis, interactions,
                      cluster_interactions, NumCells(interactions, cluster_interactions))
    IN  [outcome |-> st.outcome, at |-> st.at, local |-> st.table, base |-> base_result,
         result |-> IF st.outcome = "ok" THEN st.table ELSE NoTable]

\* -------------------------------------------------- get_significant_means

\* min_significant_mean = 0.05
min_significant_mean == Rat(5, 100)

\* A variant of the cutoff test that also suppresses a p-value at the cutoff.
NotSignificantAtCutoff(p) == ~Less(p, min_significant_mean) /\ ~IsNaN(p)

\* Line 44: result_percent.at[...] > min_significant_mean (FALSE on NaN).
NotSignificant(p) == Greater(p, min_significant_mean)

RECURSIVE SignificantFill(_, _, _, _, _)
SignificantFill(significant_means, result_percent, index, columns, k) ==
    IF k = 0 THEN significant_means
    ELSE LET row == index[((k - 1) \div Len(columns)) + 1]
             col == columns[((k - 1) % Len(columns)) + 1]
             prev == SignificantFill(significant_means, result_percent, index,
                                     columns, k - 1)
         IN  IF NotSignificant(At(result_percent, row, col))
             THEN SetAt(prev, row, col, NaN)
             ELSE prev

\* get_significant_means: a copy of the real means, NaN wherever the p-value
\* exceeds the cutoff.  real is the argument as the call leaves it.
get_significant_means(real_mean_analysis, result_percent) ==
    [real |-> real_mean_analysis,
     result |-> SignificantFill(real_mean_analysis, result_percent,
                                real_mean_analysis.index, result_percent.columns,
                                Len(real_mean_analysis.index) * Len(result_percent.columns))]

\* ------------------------------------------------------------------ state

VARIABLES
    entry,                     \* the function the run entered: "pipeline", one
                               \* of the helpers on given tables, or
                               \* "shuffled_analysis" called on its own
    pc,                        \* where the calling process stands
    meta, counts, threshold,   \* the inputs
    interactions, cluster_interactions,
    base_result,               \* the template of build_result_matrix
    rng,                       \* the calling process's numpy generator state
    real_mean_analysis, real_percents_analysis,
    percents,                  \* history: the flags percent_analysis computed
    taskqueue,                 \* trials of pool.map not yet taken by a worker
    workers,                   \* the pool's processes
    results,                   \* what the workers sent back, by trial
    trial_log,                 \* history: what each trial ran on and produced
    statistical_mean_analysis, \* the list shuffled_analysis returned
    percent,                   \* how build_percent_result ended
    percent_result,            \* the table it returned
    significant_means

vars == <<entry, pc, meta, counts, threshold, interactions, cluster_interactions,
          base_result, rng, real_mean_analysis, real_percents_analysis, percents,
          taskqueue, workers, results, trial_log, statistical_mean_analysis, percent,
          percent_result, significant_means>>

Trials == 1..Iterations
Workers == 1..Threads

NoWorker == [status |-> "none", task |-> 0, state |-> 0, meta |-> MetaReal,
             base |-> NoTable]
NoResult == [status |-> "pending", table |-> NoTable]
NoTrial == [done |-> FALSE, worker |-> 0, state |-> 0, raised |-> FALSE,
            shuffled |-> MetaReal, result |-> NoTable]
NoPercent == [outcome |-> "none", at |-> 0, local |-> NoTable]

\* What no call has produced yet.
Blank ==
    /\ real_mean_analysis = NoTable
    /\ real_percents_analysis = NoTable
    /\ percents = <<>>
    /\ taskqueue = <<>>
    /\ workers = [w \in Workers |-> NoWorker]
    /\ results = [i \in Trials |-> NoResult]
    /\ trial_log = [i \in Trials |-> NoTrial]
    /\ statistical_mean_analysis = <<>>
    /\ percent = NoPercent
    /\ percent_result = NoTable
    /\ significant_means = NoTable

\* The inputs of a run on cells, and what the caller derives from them before
\* the first pass: the cluster pairs and the template, built once.  The whole
\* pipeline runs on any metadata; shuffled_analysis is also entered on its
\* own, on the metadata the real passes reject.
Init ==
    /\ entry \in {"pipeline", "shuffled_analysis"}
    /\ pc = IF entry = "pipeline" THEN "mean" ELSE "shuffled"
    /\ meta \in IF entry = "pipeline" THEN MetaInputs ELSE {MetaNoNormal}
    /\ counts \in CountsInputs
    /\ threshold \in Thresholds
    /\ rng \in 0..MaxSeed
    /\ interactions = Catalog
    /\ cluster_interactions = get_cluster_combinations(DropDuplicates(meta.cell_type))
    /\ base_result = build_result_matrix(interactions, cluster_interactions)
    /\ Blank

\* ------------------------------------------------------ the real passes

\* build_clusters and mean_analysis on the real metadata.
MeanAnalysis ==
    /\ pc = "mean"
    /\ LET clusters == build_clusters(meta, counts)
           r == mean_analysis(interactions, clusters, cluster_interactions, base_result)
       IN  IF clusters.raised \/ r.raised
           THEN /\ pc' = "failed"
                /\ UNCHANGED <<real_mean_analysis, base_result>>
           ELSE /\ pc' = "percent"
                /\ real_mean_analysis' = r.result
                /\ base_result' = r.base
    /\ UNCHANGED <<percents, entry, meta, counts, threshold, interactions, cluster_interactions,
                   rng, real_percents_analysis, taskqueue, workers, results, trial_log,
                   statistical_mean_analysis, percent, percent_result, significant_means>>

\* percent_analysis on the real metadata.
PercentAnalysis ==
    /\ pc = "percent"
    /\ LET clusters == build_clusters(meta, counts)
           r == percent_analysis(clusters, threshold, interactions, cluster_interactions,
                                 base_result)
       IN  /\ real_percents_analysis' = r.result
           /\ percents' = r.percents
           /\ base_result' = r.base
    /\ pc' = "shuffled"
    /\ UNCHANGED <<entry, meta, counts, threshold, interactions, cluster_interactions,
                   rng, real_mean_analysis, taskqueue, workers, results, trial_log,
                   statistical_mean_analysis, percent, percent_result, significant_means>>

\* ------------------------------------------------------ shuffled_analysis

\* Pool(processes=threads) forks the workers: each starts with a copy of the
\* calling process's memory, its numpy generator state included.  pool.map
\* queues the trials (chunks of one trial while iterations <= 4 * threads).
MapStart ==
    /\ pc = "shuffled"
    /\ pc' = "map"
    /\ workers' = [w \in Workers |-> [status |-> "idle", task |-> 0, state |-> rng,
                                      meta |-> meta, base |-> base_result]]
    /\ taskqueue' = [i \in Trials |-> i]
    /\ UNCHANGED <<percents, entry, meta, counts, threshold, interactions, cluster_interactions,
                   base_result, rng, real_mean_analysis, real_percents_analysis,
                   results, trial_log, statistical_mean_analysis, percent,
                   percent_result, significant_means>>

\* An idle worker takes the next trial and unpickles its arguments: its own
\* copies of the metadata and of the template.
TakeTask(w) ==
    /\ pc = "map"
    /\ workers[w].status = "idle"
    /\ taskqueue # <<>>
    /\ workers' = [workers EXCEPT ![w] = [@ EXCEPT !.status = "busy",
                                                    !.task = Head(taskqueue),
                                                    !.meta = meta,
                                                    !.base = base_result]]
    /\ taskqueue' = Tail(taskqueue)
    /\ UNCHANGED <<percents, entry, pc, meta, counts, threshold, interactions,
                   cluster_interactions, base_result, rng, real_mean_analysis,
                   real_percents_analysis, results, trial_log,
                   statistical_mean_analysis, percent, percent_result,
                   significant_means>>

\* The worker runs _statistical_analysis to its end and sends the table, or
\* the exception, back.
RunTrial(w) ==
    /\ pc = "map"
    /\ workers[w].status = "busy"
    /\ LET me == workers[w]
           r == statistical_analysis(me.base, cluster_interactions, counts,
                                     interactions, me.meta, me.state)
       IN  /\ results' = [results EXCEPT ![me.task] =
                             [status |-> IF r.raised THEN "raised" ELSE "ok",
                              table |-> r.result]]
           /\ trial_log' = [trial_log EXCEPT ![me.task] =
                               [done |-> TRUE, worker |-> w, state |-> me.state,
                                raised |-> r.raised, shuffled |-> r.shuffled,
                                result |-> r.result]]
           /\ workers' = [workers EXCEPT ![w] = [@ EXCEPT !.status = "idle",
                                                           !.state = r.state,
                                                           !.meta = r.meta,
                                                           !.base = r.base]]
    /\ UNCHANGED <<percents, entry, pc, meta, counts, threshold, interactions,
                   cluster_interactions, base_result, rng, real_mean_analysis,
                   real_percents_analysis, taskqueue, statistical_mean_analysis,
                   percent, percent_result, significant_means>>

\* A variant of the barrier that is satisfied by the first result.
MapReadyAny(res) == \E i \in DOMAIN res : res[i].status = "ok"

\* pool.map returns once every trial has sent its table back.
MapReady(res) == \A i \in DOMAIN res : res[i].status = "ok"

\* The tables that are in, in trial order.
RECURSIVE Collected(_, _)
Collected(res, n) ==
    IF n = 0 THEN <<>>
    ELSE IF res[n].status = "ok" THEN Append(Collected(res, n - 1), res[n].table)
    ELSE Collected(res, n - 1)

\* Leaving the with block terminates the workers.
Terminated == [w \in Workers |-> [workers[w] EXCEPT !.status = "terminated"]]

\* pool.map returns the list and shuffled_analysis hands it to its caller.
MapReturn ==
    /\ pc = "map"
    /\ MapReady(results)
    /\ statistical_mean_analysis' = Collected(results, Iterations)
    /\ workers' = Terminated
    /\ taskqueue' = <<>>
    /\ pc' = IF entry = "pipeline" THEN "pvalue" ELSE "done"
    /\ UNCHANGED <<percents, entry, meta, counts, threshold, interactions, cluster_interactions,
                   base_result, rng, real_mean_analysis, real_percents_analysis,
                   results, trial_log, percent, percent_result, significant_means>>

\* pool.map re-raises a trial's exception as soon as it is in; the trials
\* still queued or running are abandoned with the pool.
MapRaise ==
    /\ pc = "map"
    /\ \E i \in Trials : results[i].status = "raised"
    /\ workers' = Terminated
    /\ taskqueue' = <<>>
    /\ pc' = "failed"
    /\ UNCHANGED <<percents, entry, meta, counts, threshold, interactions, cluster_interactions,
                   base_result, rng, real_mean_analysis, real_percents_analysis,
                   results, trial_log, statistical_mean_analysis, percent,
                   percent_result, significant_means>>

\* ------------------------------------------- p-values, significant means

BuildPercentResult ==
    /\ pc = "pvalue"
    /\ LET r == build_percent_result(real_mean_analysis, real_percents_analysis,
                                     statistical_mean_analysis, interactions,
                                     cluster_interactions, base_result)
       IN  /\ percent' = [outcome |-> r.outcome, at |-> r.at, local |-> r.local]
           /\ percent_result' = r.result
           /\ base_result' = r.base
           /\ pc' = IF r.outcome = "ok" THEN "signif" ELSE "failed"
    /\ UNCHANGED <<percents, entry, meta, counts, threshold, interactions, cluster_interactions,
                   rng, real_mean_analysis, real_percents_analysis, taskqueue, workers,
                   results, trial_log, statistical_mean_analysis, significant_means>>

GetSignificantMeans ==
    /\ pc = "signif"
    /\ LET r == get_significant_means(real_mean_analysis, percent_result)
       IN  /\ significant_means' = r.result
           /\ real_mean_analysis' = r.real
    /\ pc' = "done"
    /\ UNCHANGED <<percents, entry, meta, counts, threshold, interactions, cluster_interactions,
                   base_result, rng, real_percents_analysis, taskqueue, workers,
                   results, trial_log, statistical_mean_analysis, percent,
                   percent_result>>

Next ==
    \/ MeanAnalysis
    \/ PercentAnalysis
    \/ MapStart
    \/ \E w \in Workers : TakeTask(w)
    \/ \E w \in Workers : RunTrial(w)
    \/ MapReturn
    \/ MapRaise
    \/ BuildPercentResult
    \/ GetSignificantMeans

Spec == Init /\ [][Next]_vars

\* ------------------------------------------- the helpers on given tables

\* Tables of the template's shape whose cell (row, column) is drawn from
\* values[row].
TablesOver(t, values) ==
    {Table(t.index, t.columns, f) :
        f \in {g \in [Range(t.index) \X Range(t.columns) -> UNION Range(values)] :
                  \A i \in 1..Len(t.index) : \A c \in Range(t.columns) :
                      g[<<t.index[i], c>>] \in values[i]}}

\* Lists of at most n tables.
ListsUpTo(n, tables) == UNION {[1..m -> tables] : m \in 0..n}

\* Real means -1, 0, 1 and NaN; the second row draws from fewer values.
MeanValues ==
    << {NaN, Log(1, 4), Log(1, 1), Log(4, 1)},
       {NaN, Log(1, 1), Log(4, 1)} >>

\* Shuffled means -2, 1, 2 and NaN; the second row draws from fewer values.
ShuffledValues ==
    << {NaN, Log(1, 16), Log(4, 1), Log(16, 1)},
       {NaN, Log(16, 1)} >>

FlagValues == << {Rat(0, 1), Rat(1, 1)}, {Rat(0, 1), Rat(1, 1)} >>

\* p-values around the cutoff: 0, 0.04, 0.05, 0.06, 1, 2.
PValues ==
    << {Rat(0, 1), Rat(1, 25), Rat(1, 20), Rat(3, 50), Rat(1, 1), Rat(2, 1)},
       {Rat(0, 1), Rat(1, 25), Rat(1, 20), Rat(3, 50), Rat(1, 1), Rat(2, 1)} >>

\* Inputs no helper on given tables reads.
Unused ==
    /\ meta = MetaReal
    /\ counts = [g \in Range(Genes) |-> <<1, 1, 1, 1, 1>>]
    /\ threshold = Rat(1, 10)
    /\ rng = 0

\* build_percent_result on a real mean table, a real flag table and a list of
\* shuffled mean tables drawn from the sets above: two interactions, the one
\* cluster pair of a single cluster.
InitTables ==
    /\ entry = "build_percent_result"
    /\ pc = "pvalue"
    /\ Unused
    /\ interactions = Catalog
    /\ cluster_interactions = get_cluster_combinations(<<"A">>)
    /\ base_result = build_result_matrix(interactions, cluster_interactions)
    /\ real_mean_analysis \in TablesOver(base_result, MeanValues)
    /\ real_percents_analysis \in TablesOver(base_result, FlagValues)
    /\ statistical_mean_analysis \in
           ListsUpTo(Iterations, TablesOver(base_result, ShuffledValues))
    /\ percents = <<>>
    /\ taskqueue = <<>>
    /\ workers = [w \in Workers |-> NoWorker]
    /\ results = [i \in Trials |-> NoResult]
    /\ trial_log = [i \in Trials |-> NoTrial]
    /\ percent = NoPercent
    /\ percent_result = NoTable
    /\ significant_means = NoTable

NextTables == BuildPercentResult \/ GetSignificantMeans

SpecTables == InitTables /\ [][NextTables]_vars

\* get_significant_means on a real mean table and a p-value table drawn from
\* the sets above.
InitSignif ==
    /\ entry = "get_significant_means"
    /\ pc = "signif"
    /\ Unused
    /\ interactions = Catalog
    /\ cluster_interactions = get_cluster_combinations(<<"A">>)
    /\ base_result = build_result_matrix(interactions, cluster_interactions)
    /\ real_mean_analysis \in TablesOver(base_result, MeanValues)
    /\ percent_result \in TablesOver(base_result, PValues)
    /\ real_percents_analysis = NoTable
    /\ statistical_mean_analysis = <<>>
    /\ percents = <<>>
    /\ taskqueue = <<>>
    /\ workers = [w \in Workers |-> NoWorker]
    /\ results = [i \in Trials |-> NoResult]
    /\ trial_log = [i \in Trials |-> NoTrial]
    /\ percent = NoPercent
    /\ significant_means = NoTable

NextSignif == GetSignificantMeans

SpecSignif == InitSignif /\ [][NextSignif]_vars

\* ======================================================================
\* Properties of build_percent_result (checked under SpecTables)
\* ======================================================================

\* The cells of the p-value loop, in loop order, and what the inputs hold
\* for cell k.
CellIds == 1..NumCells(interactions, cluster_interactions)
CellRow(k) == RowOf(interactions, cluster_interactions, k).id
CellCol(k) ==
    Format(PairOf(cluster_interactions, k)[1], PairOf(cluster_interactions, k)[2])
RealMean(k) == At(real_mean_analysis, CellRow(k), CellCol(k))
RealFlag(k) == At(real_percents_analysis, CellRow(k), CellCol(k))

\* The shuffled tables whose value for cell k is a number.
ValidSamples(k) ==
    {i \in 1..Len(statistical_mean_analysis) :
        statistical_mean_analysis[i].data[<<CellRow(k), CellCol(k)>>].k # "nan"}
Sample(i, k) == statistical_mean_analysis[i].data[<<CellRow(k), CellCol(k)>>]

\* The real mean of cell k is a number above, below, or equal to zero.
MeanAbove(k) == RealMean(k).k = "log" /\ RealMean(k).n > RealMean(k).d
MeanBelow(k) == RealMean(k).k = "log" /\ RealMean(k).n < RealMean(k).d
MeanZero(k) == RealMean(k).k = "log" /\ RealMean(k).n = RealMean(k).d
FlagZero(k) == RealFlag(k).n = 0

\* The samples of cell k strictly beyond its real mean, on the mean's side.
Beyond(k) ==
    {i \in ValidSamples(k) :
        IF MeanAbove(k)
        THEN Sample(i, k).n * RealMean(k).d > RealMean(k).n * Sample(i, k).d
        ELSE Sample(i, k).n * RealMean(k).d < RealMean(k).n * Sample(i, k).d}

\* build_percent_result has run.
PercentRan == percent.outcome # "none"
\* Its loop completed the iteration of cell k.
Written(k) == percent.outcome = "ok" \/ (percent.outcome # "none" /\ k < percent.at)
\* The value its table holds for cell k.
PValue(k) == percent.local.data[<<CellRow(k), CellCol(k)>>]

C2_VetoIsOne ==
    PercentRan =>
        \A k \in CellIds :
            (FlagZero(k) \/ MeanZero(k)) =>
                /\ percent.at # k
                /\ Written(k) => PValue(k) = Rat(1, 1)

\* C2 witness: a returned table with a cell vetoed by its zero mean alone,
\* all its samples NaN, and a cell vetoed by its flag alone, both written
\* as 1.0.
C2_Witness ==
    /\ percent.outcome = "ok"
    /\ \E k \in CellIds :
           /\ MeanZero(k) /\ ~FlagZero(k)
           /\ ValidSamples(k) = {}
           /\ statistical_mean_analysis # <<>>
           /\ PValue(k) = Rat(1, 1)
    /\ \E k \in CellIds :
           /\ FlagZero(k) /\ MeanAbove(k)
           /\ PValue(k) = Rat(1, 1)

Alone(k) ==
    BprCell(BprStart(base_result), real_mean_analysis, real_percents_analysis,
            statistical_mean_analysis, interactions, cluster_interactions, k)

\* C11: the p-value the loop wrote to a cell is the one the cell's own real
\* mean, flag and samples give, that is the value its iteration writes when
\* no cell was processed before it; this for every cell, a cell with a NaN
\* real mean and a nonzero flag included.
C11_CellIndependence ==
    PercentRan =>
        \A k \in CellIds :
            Written(k) =>
                /\ Alone(k).outcome = "ok"
                /\ PValue(k) = Alone(k).table.data[<<CellRow(k), CellCol(k)>>]

\* ======================================================================
\* Properties of the passes on cells (checked under Spec)
\* ======================================================================

CellsOf(m, c, g) ==
    {i \in 1..Len(m.cell_type) : m.cell_type[i] = c /\ m.group[i] = g}

\* C3: each per-group flag percent_analysis computes for a gene is 1 exactly
\* when the fraction of the subset's cells with a positive value of that
\* gene is strictly below the threshold, and the cluster flag is the AND of
\* the two per-group flags.
C3_FlagIsPerGeneFraction ==
    percents # <<>> =>
        \A c \in DOMAIN percents : \A gene \in Range(Genes) :
            LET positive(g) ==
                    Cardinality({i \in CellsOf(meta, c, g) : counts[gene][i] > 0})
                flag(g) ==
                    IF positive(g) * threshold.d
                         < threshold.n * Cardinality(CellsOf(meta, c, g))
                    THEN 1 ELSE 0
            IN  /\ percents[c][gene].tumor = flag("tumor")
                /\ percents[c][gene].normal = flag("normal")
                /\ percents[c][gene].both = 1
                     <=> (percents[c][gene].tumor = 1 /\ percents[c][gene].normal = 1)

\* C5: two trials run by different workers never draw their shuffle from the
\* same generator state, and no trial draws from the state another trial's
\* draw left behind.
C5_IndependentGenerators ==
    \A i, j \in Trials :
        (i # j /\ trial_log[i].done /\ trial_log[j].done) =>
            /\ trial_log[i].worker # trial_log[j].worker
                 => trial_log[i].state # trial_log[j].state
            /\ trial_log[j].state
                 # (trial_log[i].state + 1) % Factorial(Len(meta.cell_type))

\* The list shuffled_analysis handed to its caller, if it did.
Handed == statistical_mean_analysis # <<>>

\* C6: a list is handed over only after every trial ran to completion; it
\* has one entry per trial, entry i the table trial i produced; once a trial
\* has failed no list is ever handed over and the call can only end failed.
C6_AllOrNothing ==
    /\ Handed =>
           /\ Len(statistical_mean_analysis) = Iterations
           /\ \A i \in Trials :
                  /\ trial_log[i].done
                  /\ ~trial_log[i].raised
                  /\ statistical_mean_analysis[i] = trial_log[i].result
                  /\ statistical_mean_analysis[i] # NoTable
    /\ (\E i \in Trials : trial_log[i].raised) => (~Handed /\ pc \in {"map", "failed"})
    /\ (pc \in {"pvalue", "signif", "done"} /\ entry \in {"pipeline", "shuffled_analysis"})
           => Handed

\* C6 witness: the list was handed over after trials run by two workers.
C6_Witness ==
    /\ Handed
    /\ pc = "pvalue"
    /\ \E i, j \in Trials : trial_log[i].worker # trial_log[j].worker

\* The rows and columns the template must have for the catalog and the two
\* clusters of the inputs.
ExpectedIndex == <<"i1", "i2">>
ExpectedColumns == <<"A_A", "A_B", "B_A", "B_B">>
ExpectedTemplate ==
    Table(ExpectedIndex, ExpectedColumns,
          [p \in Range(ExpectedIndex) \X Range(ExpectedColumns) |-> NaN])
SameShape(t) ==
    /\ t.index = ExpectedIndex
    /\ t.columns = ExpectedColumns
    /\ DOMAIN t.data = Range(ExpectedIndex) \X Range(ExpectedColumns)

\* C7: every table a pass produced has the template's rows and columns in the
\* template's order (catalog order, sorted cluster pairs), and the template,
\* in the calling process and in every worker, is still the empty one.
C7_SchemaIdentity ==
    /\ base_result = ExpectedTemplate
    /\ real_mean_analysis # NoTable => SameShape(real_mean_analysis)
    /\ real_percents_analysis # NoTable => SameShape(real_percents_analysis)
    /\ \A i \in Trials :
           /\ results[i].status = "ok" => SameShape(results[i].table)
           /\ (trial_log[i].done /\ ~trial_log[i].raised)
                  => SameShape(trial_log[i].result)
    /\ \A i \in 1..Len(statistical_mean_analysis) :
           SameShape(statistical_mean_analysis[i])
    /\ percent.outcome # "none" => SameShape(percent.local)
    /\ percent_result # NoTable => SameShape(percent_result)
    /\ \A w \in Workers :
           workers[w].status # "none" => workers[w].base = ExpectedTemplate

\* C7 witness: a whole run: both real passes, every trial, the p-values.
C7_Witness ==
    /\ entry = "pipeline"
    /\ pc = "done"
    /\ real_percents_analysis # NoTable
    /\ percent_result # NoTable
    /\ \A i \in Trials : trial_log[i].done

\* C8: the metadata a trial shuffled has the same cells and groups as the
\* real metadata and the same number of cells of every cluster, and the
\* metadata every worker holds is still the real one after its trials.
C8_ShufflePermutes ==
    /\ \A i \in Trials :
           trial_log[i].done =>
               LET sh == trial_log[i].shuffled
               IN  /\ Len(sh.cell_type) = Len(meta.cell_type)
                   /\ sh.group = meta.group
                   /\ \A c \in Range(meta.cell_type) \cup Range(sh.cell_type) :
                          Cardinality({p \in 1..Len(sh.cell_type) : sh.cell_type[p] = c})
                            = Cardinality({p \in 1..Len(meta.cell_type) :
                                              meta.cell_type[p] = c})
    /\ \A w \in Workers : workers[w].status # "none" => workers[w].meta = meta

\* C8 witness: one worker ran two trials, each on labels that differ from the
\* real ones and from each other.
C8_Witness ==
    \E i, j \in Trials :
        /\ i # j /\ trial_log[i].done /\ trial_log[j].done
        /\ trial_log[i].worker = trial_log[j].worker
        /\ trial_log[i].shuffled.cell_type # meta.cell_type
        /\ trial_log[j].shuffled.cell_type # meta.cell_type
        /\ trial_log[i].shuffled.cell_type # trial_log[j].shuffled.cell_type

\* A cluster of metadata m with an empty (cluster, group) subset.
HasEmptySubset(m, c) ==
    \E g \in {"tumor", "normal"} : CellsOf(m, c, g) = {}

AboveCutoff(row, col) ==
    /\ percent_result.data[<<row, col>>].k = "rat"
    /\ percent_result.data[<<row, col>>].n * 20 > percent_result.data[<<row, col>>].d

\* C9: the call of get_significant_means leaves the real mean table as it
\* was and produces a table of the same rows and columns in which a cell is
\* NaN when its p-value is strictly above 0.05 and is the real mean of that
\* cell otherwise, a p-value of exactly 0.05 included.
C9_SignificantMeans ==
    [][pc = "signif" =>
          /\ real_mean_analysis' = real_mean_analysis
          /\ significant_means'.index = real_mean_analysis.index
          /\ significant_means'.columns = real_mean_analysis.columns
          /\ \A row \in Range(real_mean_analysis.index) :
             \A col \in Range(real_mean_analysis.columns) :
                 significant_means'.data[<<row, col>>] =
                     IF AboveCutoff(row, col) THEN NaN
                     ELSE real_mean_analysis.data[<<row, col>>]]_vars

\* C9 witness: the call returned a table keeping a real mean whose p-value is
\* exactly 0.05 and suppressing one whose p-value is 0.06.
C9_Witness ==
    /\ entry = "get_significant_means"
    /\ pc = "done"
    /\ percent_result.data[<<"i1", "A_A">>] = Rat(1, 20)
    /\ real_mean_analysis.data[<<"i1", "A_A">>] = Log(4, 1)
    /\ significant_means.data[<<"i1", "A_A">>] = Log(4, 1)
    /\ percent_result.data[<<"i2", "A_A">>] = Rat(3, 50)
    /\ real_mean_analysis.data[<<"i2", "A_A">>] = Log(4, 1)
    /\ significant_means.data[<<"i2", "A_A">>] = NaN

====
